---- MODULE Spec2Model ----
(***************************************************************************)
(* A model of the codon usage service (app.py): the usage table and the    *)
(* SHAP cache are the process state, every Flask route is one action.      *)
(*                                                                         *)
(* Python strings are tuples of one-character strings, so that upper(),    *)
(* replace(), str.contains and f-string formatting are computed.  Python's *)
(* None / a missing value is the empty tuple <<>> and a present value x is *)
(* <<x>>.  A float is an exact fraction [num, den]; frequencies of the     *)
(* table are naturals.                                                     *)
(*                                                                         *)
(* What is held fixed: the table has at least one row and non-negative     *)
(* frequencies; host and species strings are letters only (str.contains    *)
(* reads its pattern as a regular expression); startup computed the        *)
(* background SHAP values; requests are answered one at a time.            *)
(***************************************************************************)
EXTENDS Integers, Sequences, FiniteSets, TLC

VARIABLES
    codon_df,            \* the usage table: [columns, rows]
    FEATURE_COLUMNS,     \* numeric, non-metadata columns, in table order
    X_background,        \* background rows sampled at startup
    feature_importance,  \* booster.get_score(): feature name -> weight
    background_shap_values, \* SHAP values of the background, None when startup could not compute them
    shap_cache,          \* cache key -> explanation
    explainer,           \* the TreeExplainer: its expected value and the SHAP values it
                         \* gives the global-average sample, per feature, in units of 1e-7
    pc,                  \* "idle": waiting for a request, "done": a response was returned
    request,             \* the request being answered
    response             \* the response returned for it

vars == <<codon_df, FEATURE_COLUMNS, X_background, feature_importance,
          background_shap_values, shap_cache, explainer, pc, request, response>>

\* ---------------------------------------------------------------- bounds

\* Rows of the usage table under Spec.
MaxRows == 2
\* Rows of the usage table under SpecTop (more than head(5) keeps).
MaxTopRows == 6
\* Feature columns of the usage table under SpecWaterfall (more than the
\* explanation's top 10 keep).
MaxFeatures == 11
\* Entries the SHAP cache may hold before requests that would add one are no longer explored.
MaxCache == 1
\* The frequencies a cell of the table may hold.
FreqValues == {0, 1}

\* ---------------------------------------------------------------- strings

Range(s) == {s[i] : i \in 1..Len(s)}

LowerLetters == <<"a","b","c","d","e","f","g","h","i","j","k","l","m",
                  "n","o","p","q","r","s","t","u","v","w","x","y","z">>
UpperLetters == <<"A","B","C","D","E","F","G","H","I","J","K","L","M",
                  "N","O","P","Q","R","S","T","U","V","W","X","Y","Z">>

ToUpper == [c \in Range(LowerLetters) |->
              UpperLetters[CHOOSE i \in 1..26 : LowerLetters[i] = c]]
ToLower == [c \in Range(UpperLetters) |->
              LowerLetters[CHOOSE i \in 1..26 : UpperLetters[i] = c]]

UpperChar(c) == IF c \in DOMAIN ToUpper THEN ToUpper[c] ELSE c

LowerChar(c) == IF c \in DOMAIN ToLower THEN ToLower[c] ELSE c

\* str.upper()
StrUpper(s) == [i \in 1..Len(s) |-> UpperChar(s[i])]

\* str.replace(a, b) for one-character a and b
StrReplace(s, a, b) == [i \in 1..Len(s) |-> IF s[i] = a THEN b ELSE s[i]]

\* Series.str.contains(pat, case=False) for a pattern of letters only:
\* pat occurs in s, ignoring case.
StrContainsNoCase(s, pat) ==
    \E k \in 0..(Len(s) - Len(pat)) :
        \A i \in 1..Len(pat) : LowerChar(s[k + i]) = LowerChar(pat[i])

\* ---------------------------------------------------------------- genetic code

VALID_AA == {"A","C","D","E","F","G","H","I","K","L","M","N","P","Q","R","S","T","V","W","Y"}

\* The standard table (id 1) in the order Bio.Data.CodonTable lists it: first,
\* second and third base over U, C, A, G; "*" marks the stop codons, which are
\* not in forward_table.
Bases == <<"U","C","A","G">>
StandardCode ==
    <<"F","F","L","L","S","S","S","S","Y","Y","*","*","C","C","*","W",
      "L","L","L","L","P","P","P","P","H","H","Q","Q","R","R","R","R",
      "I","I","I","M","T","T","T","T","N","N","K","K","S","S","R","R",
      "V","V","V","V","A","A","A","A","D","D","E","E","G","G","G","G">>

CodonAt(k) ==
    <<Bases[((k - 1) \div 16) + 1], Bases[(((k - 1) \div 4) % 4) + 1], Bases[((k - 1) % 4) + 1]>>

RECURSIVE CodonsFrom(_, _)
CodonsFrom(aa, k) ==
    IF k > 64 THEN <<>>
    ELSE IF StandardCode[k] = aa THEN <<CodonAt(k)>> \o CodonsFrom(aa, k + 1)
    ELSE CodonsFrom(aa, k + 1)

\* The dictionary built from table.forward_table: amino acid -> its codons.
ForwardCodons == [aa \in VALID_AA |-> CodonsFrom(aa, 1)]

\* AA_TO_CODONS.get(aa, []) for a Python string aa: the keys are the 20 one-letter codes.
AA_TO_CODONS(aa) ==
    IF Len(aa) = 1 /\ aa[1] \in VALID_AA THEN ForwardCodons[aa[1]] ELSE <<>>

\* ---------------------------------------------------------------- values

None == <<>>
Some(x) == <<x>>

\* A float as an exact fraction; den = 0 is NaN (num = 0) or an infinity.
Frac(n, d) == [num |-> n, den |-> d]
FracLess(a, b) == a.num * b.den < b.num * a.den
FracEq(a, b) == a.num * b.den = b.num * a.den

\* A JSON value of a request: a string, a number, null, or a key that is absent.
JStr(s) == [t |-> "str", s |-> s, n |-> 0]
JNum(n) == [t |-> "num", s |-> <<>>, n |-> n]
JNull == [t |-> "null", s |-> <<>>, n |-> 0]
Missing == [t |-> "missing", s |-> <<>>, n |-> 0]

\* data.get(key, default)
Get(v, default) == IF v.t = "missing" THEN default ELSE v

\* Python truthiness of a JSON value
Truthy(v) ==
    \/ v.t = "str" /\ Len(v.s) > 0
    \/ v.t = "num" /\ v.n # 0

\* str(v), as an f-string formats it
Format(v) ==
    CASE v.t = "str" -> v.s
      [] v.t = "null" -> <<"N","o","n","e">>
      [] v.t = "num" -> <<"#">>
      [] OTHER -> <<>>

\* ---------------------------------------------------------------- the usage table

GCA == <<"G","C","A">>
GCU == <<"G","C","U">>

\* The codon columns a loaded table may have, in table order.
ColumnChoices == {<<GCA>>, <<GCU, GCA>>}

Ecoli == <<"E","c","o","l","i">>
Hsap == <<"H","s","a","p">>
SpeciesNames == <<Ecoli, Hsap>>

KingdomOf(name) == IF name = Ecoli THEN "bct" ELSE "pri"

\* One row: the metadata columns and the frequency of every codon column.
Row(name, v) == [SPECIESNAME |-> name, KINGDOM |-> KingdomOf(name), v |-> v]

RowsOver(cols, freqs) ==
    {Row(SpeciesNames[i], v) : i \in 1..Len(SpeciesNames), v \in [Range(cols) -> freqs]}

\* A code that orders the rows of a table: tables are enumerated with their rows
\* in non-decreasing code order.
RECURSIVE FreqCode(_, _)
FreqCode(cols, v) ==
    IF cols = <<>> THEN 0 ELSE v[Head(cols)] + 8 * FreqCode(Tail(cols), v)

RowCode(cols, r) ==
    (CHOOSE i \in 1..Len(SpeciesNames) : SpeciesNames[i] = r.SPECIESNAME)
    + 4 * FreqCode(cols, r.v)

TablesOver(cols, freqs, lo, hi) ==
    {[columns |-> cols, rows |-> rows] :
        rows \in {rs \in UNION {[1..n -> RowsOver(cols, freqs)] : n \in lo..hi} :
                    \A i \in 1..(Len(rs) - 1) : RowCode(cols, rs[i]) <= RowCode(cols, rs[i + 1])}}

\* fix_data_types leaves every non-metadata column numeric, so FEATURE_COLUMNS
\* is every non-metadata column, in table order.
FeatureColumns(df) == df.columns

RECURSIVE KingdomsOf(_)
KingdomsOf(rows) ==
    IF rows = <<>> THEN <<>>
    ELSE LET rest == KingdomsOf(Tail(rows))
         IN  <<Head(rows).KINGDOM>> \o SelectSeq(rest, LAMBDA k : k # Head(rows).KINGDOM)

RECURSIVE ConcatGroups(_, _)
ConcatGroups(rows, kingdoms) ==
    IF kingdoms = <<>> THEN <<>>
    ELSE SelectSeq(rows, LAMBDA r : r.KINGDOM = Head(kingdoms))
         \o ConcatGroups(rows, Tail(kingdoms))

\* create_stratified_background(codon_df, n_samples=100): with at most 100 rows
\* every kingdom contributes all of its rows; the feature columns of the sample.
create_stratified_background(df) ==
    LET picked == ConcatGroups(df.rows, KingdomsOf(df.rows))
    IN  [i \in 1..Len(picked) |-> picked[i].v]

\* booster.get_score(importance_type="weight") of the loaded model: a weight for
\* the DNA-spelled name of each feature the trees split on.
BoosterScore(features) ==
    [f \in {StrReplace(c, "U", "T") : c \in Range(features)} |->
        CHOOSE i \in 1..Len(features) : StrReplace(features[i], "U", "T") = f]

\* ---------------------------------------------------------------- pandas helpers

RECURSIVE ColSum(_, _)
ColSum(rows, c) ==
    IF rows = <<>> THEN 0 ELSE Head(rows).v[c] + ColSum(Tail(rows), c)

\* df[c].mean()
ColMean(rows, c) == Frac(ColSum(rows, c), Len(rows))

RECURSIVE RowSum(_, _)
RowSum(r, codons) ==
    IF codons = <<>> THEN 0 ELSE r.v[Head(codons)] + RowSum(r, Tail(codons))

\* sort_values(ascending=False) of items that carry their sort key in .key:
\* pandas sorts through nargsort, which leaves ties in their original order.
SortedDesc(items) ==
    LET n == Len(items)
        pos == [i \in 1..n |-> 1 + Cardinality({j \in 1..n :
                        \/ FracLess(items[i].key, items[j].key)
                        \/ FracEq(items[i].key, items[j].key) /\ j < i})]
    IN  [p \in 1..n |-> items[CHOOSE i \in 1..n : pos[i] = p]]

\* sort_values() (ascending)
SortedAsc(items) ==
    LET n == Len(items)
        pos == [i \in 1..n |-> 1 + Cardinality({j \in 1..n :
                        \/ FracLess(items[j].key, items[i].key)
                        \/ FracEq(items[i].key, items[j].key) /\ j < i})]
    IN  [p \in 1..n |-> items[CHOOSE i \in 1..n : pos[i] = p]]

\* The number of rows head() keeps in analyze and species_specific_analysis.
HeadRows == 5

\* .head(5)
HeadOf(s) == SubSeq(s, 1, IF Len(s) < HeadRows THEN Len(s) ELSE HeadRows)

\* [c for c in AA_TO_CODONS.get(aa, []) if c in codon_df.columns]
CodonsInTable(df, aa) ==
    SelectSeq(AA_TO_CODONS(aa), LAMBDA c : c \in Range(df.columns))

\* A ranking sorted the wrong way round (ascending=True).
MeanUsageAscending(rows, codons) ==
    SortedAsc([i \in 1..Len(codons) |->
                 [key |-> ColMean(rows, codons[i]), codon |-> codons[i]]])

\* df[codons].mean().sort_values(ascending=False): entries [key, codon]
MeanUsageDesc(rows, codons) ==
    SortedDesc([i \in 1..Len(codons) |->
                  [key |-> ColMean(rows, codons[i]), codon |-> codons[i]]])

\* codon_df[codon_df["SPECIESNAME"].str.contains(host, case=False, na=False)]
HostRows(df, host) ==
    SelectSeq(df.rows, LAMBDA r : StrContainsNoCase(r.SPECIESNAME, host))

\* ---------------------------------------------------------------- analyze

\* The ranking loop of analyze: one entry per codon of mean_usage, ranks from 1.
CodonRanking(mean_usage, fi) ==
    [i \in 1..Len(mean_usage) |->
        [rank |-> i,
         codon |-> mean_usage[i].codon,
         frequency |-> mean_usage[i].key,
         ml_weight |->
            LET f == StrReplace(mean_usage[i].codon, "U", "T")
            IN  IF f \in DOMAIN fi THEN fi[f] ELSE 0]]

\* selected_rank: the rank at which codon == selected_codon, else None
SelectedRank(mean_usage, selected_codon) ==
    IF \E i \in 1..Len(mean_usage) : Some(mean_usage[i].codon) = selected_codon
    THEN Some(CHOOSE i \in 1..Len(mean_usage) : Some(mean_usage[i].codon) = selected_codon)
    ELSE None

\* A score that ignores the selected codon.
ScoreSumOnly(r, codons, selected_codon) == RowSum(r, codons)

\* df_tmp["SCORE"]: the selected codon's column when it is one of codons,
\* else the row sum over codons.
Score(r, codons, selected_codon) ==
    IF selected_codon # None /\ selected_codon[1] \in Range(codons)
    THEN r.v[selected_codon[1]]
    ELSE RowSum(r, codons)

\* df_tmp.sort_values("SCORE", ascending=False).head(5)[["SPECIESNAME", "SCORE"]]
TopSpecies(rows, codons, selected_codon) ==
    LET scored == [i \in 1..Len(rows) |->
                     [key |-> Frac(Score(rows[i], codons, selected_codon), 1),
                      SPECIESNAME |-> rows[i].SPECIESNAME]]
        top == HeadOf(SortedDesc(scored))
    IN  [i \in 1..Len(top) |->
            [SPECIESNAME |-> top[i].SPECIESNAME, SCORE |-> top[i].key.num]]

\* The SCORE column added to the table itself (no .copy()).
TableScoredInPlace(df) == [df EXCEPT !.columns = Append(@, <<"S","C","O","R","E">>)]

\* df_tmp = codon_df.copy(): the SCORE column is added to the copy, and the
\* table itself is what it was.
TableAfterScore(df) == df

Raised == [raised |-> TRUE, error |-> None, result |-> None]

\* analyze(aa, selected_codon) on the JSON values the handler passes.
analyze(df, fi, aa, codon) ==
    IF aa.t # "str" THEN Raised                          \* aa.upper()
    ELSE IF Truthy(codon) /\ codon.t # "str" THEN Raised \* selected_codon.upper()
    ELSE
      LET up == StrUpper(aa.s)
          selected_codon == IF Truthy(codon) THEN Some(StrUpper(codon.s)) ELSE None
          codons == CodonsInTable(df, up)
          mean_usage == MeanUsageDesc(df.rows, codons)
      IN  IF ~(Len(up) = 1 /\ up[1] \in VALID_AA)
          THEN [raised |-> FALSE, result |-> None,
                error |-> Some("Invalid amino acid (use single-letter code)")]
          ELSE IF codons = <<>>
          THEN [raised |-> FALSE, result |-> None,
                error |-> Some("No codon data available")]
          ELSE [raised |-> FALSE, error |-> None,
                result |-> Some(
                    [codon_ranking |-> CodonRanking(mean_usage, fi),
                     selected_rank |-> SelectedRank(mean_usage, selected_codon),
                     top_species |-> TopSpecies(df.rows, codons, selected_codon)])]

\* ---------------------------------------------------------------- species and host analyses

SetMax(S) == CHOOSE x \in S : \A y \in S : y <= x

\* Scores left as they are (the division by the maximum forgotten).
PreferenceUnscaled(max_val) == 1

\* if max_val > 0: df["PREFERENCE_SCORE"] /= max_val -- the divisor applied
PreferenceScale(max_val) == IF max_val > 0 THEN max_val ELSE 1

\* species_specific_analysis(aa, codon): aa is the string and codon the JSON
\* value of the request, as the handler passes them.
species_specific_analysis(df, aa, codon) ==
    LET codons == CodonsInTable(df, aa)
        chosen == codon.t = "str" /\ codon.s \in Range(codons)
        raw(r) == IF chosen THEN r.v[codon.s] ELSE RowSum(r, codons)
        max_val == SetMax({raw(df.rows[i]) : i \in 1..Len(df.rows)})
        scored == [i \in 1..Len(df.rows) |->
                     [key |-> Frac(raw(df.rows[i]), PreferenceScale(max_val)),
                      SPECIESNAME |-> df.rows[i].SPECIESNAME]]
        pick(sorted) == [i \in 1..Len(sorted) |->
                           [SPECIESNAME |-> sorted[i].SPECIESNAME,
                            PREFERENCE_SCORE |-> sorted[i].key]]
    IN  IF codons = <<>> THEN None
        ELSE Some([top_species |-> pick(HeadOf(SortedDesc(scored))),
                   bottom_species |-> pick(HeadOf(SortedAsc(scored))),
                   explanation |-> "Normalized species-level codon preference analysis."])

Returned(v) == [raised |-> FALSE, value |-> v]
Raises == [raised |-> TRUE, value |-> None]

\* host_aware_optimization(aa, host)
host_aware_optimization(df, aa, host) ==
    IF ~Truthy(host) THEN Returned(None)
    ELSE IF host.t # "str" THEN Raises              \* str.contains: TypeError
    ELSE
      LET codons == CodonsInTable(df, aa)
          rows == HostRows(df, host.s)
          mean_usage == MeanUsageDesc(rows, codons)
      IN  IF rows = <<>> THEN Returned(None)
          ELSE IF mean_usage = <<>> THEN Raises     \* mean_usage.index[0]: IndexError
          ELSE Returned(Some(
                  [host_species |-> host.s,
                   optimal_codon |-> mean_usage[1].codon,
                   codon_ranking |-> [i \in 1..Len(mean_usage) |->
                                        <<mean_usage[i].codon, mean_usage[i].key>>]]))

\* Series.quantile(0.25) with linear interpolation, of means over n rows
Quantile25(means, n) ==
    LET k == Len(means)
        sorted == SortedAsc(means)
        lo == ((k - 1) \div 4) + 1
        hi == IF lo < k THEN lo + 1 ELSE lo
    IN  IF k = 0 THEN Frac(0, 0)
        ELSE Frac(4 * sorted[lo].key.num
                    + ((k - 1) % 4) * (sorted[hi].key.num - sorted[lo].key.num),
                  4 * n)

\* rare_codon_risk(aa, host)
rare_codon_risk(df, aa, host) ==
    IF ~Truthy(host) THEN Returned(None)
    ELSE IF host.t # "str" THEN Raises
    ELSE
      LET codons == CodonsInTable(df, aa)
          rows == HostRows(df, host.s)
          mean_usage == [i \in 1..Len(codons) |->
                           [key |-> ColMean(rows, codons[i]), codon |-> codons[i]]]
          threshold == Quantile25(mean_usage, Len(rows))
          rare == SortedAsc(SelectSeq(mean_usage,
                      LAMBDA m : ~FracLess(threshold, m.key)))
      IN  IF rows = <<>> THEN Returned(None)
          ELSE Returned(Some(
                  [threshold |-> threshold,
                   rare_codons |-> [i \in 1..Len(rare) |->
                                      [codon |-> rare[i].codon, usage |-> rare[i].key]]]))

Abs(x) == IF x < 0 THEN -x ELSE x

\* round(): p / q (q > 0) to the nearest integer, ties to even
RoundHalfEven(p, q) ==
    LET f == p \div q
        r == p - f * q
    IN  IF 2 * r < q THEN f
        ELSE IF 2 * r > q THEN f + 1
        ELSE IF f % 2 = 0 THEN f ELSE f + 1

RECURSIVE SumSeq(_)
SumSeq(s) == IF s = <<>> THEN 0 ELSE Head(s) + SumSeq(Tail(s))

\* host_compatibility_score(aa, host): 1 - sum|host - global| / sum(global),
\* as a percentage rounded to 2 places; NaN when the global profile sums to 0.
host_compatibility_score(df, aa, host) ==
    IF ~Truthy(host) THEN Returned(None)
    ELSE IF host.t # "str" THEN Raises
    ELSE
      LET codons == CodonsInTable(df, aa)
          rows == HostRows(df, host.s)
          hn == Len(rows)
          gn == Len(df.rows)
          D == SumSeq([i \in 1..Len(codons) |->
                    Abs(ColSum(rows, codons[i]) * gn - ColSum(df.rows, codons[i]) * hn)])
          G == SumSeq([i \in 1..Len(codons) |-> ColSum(df.rows, codons[i])])
      IN  IF rows = <<>> THEN Returned(None)
          ELSE Returned(Some(
                  [host_species |-> host.s,
                   compatibility_score |->
                      IF G = 0 THEN Frac(0, 0)
                      ELSE Frac(RoundHalfEven(10000 * (hn * G - D), hn * G), 100)]))

\* ---------------------------------------------------------------- SHAP explanations

\* f"{codon}_{species}_{detailed}"
CacheKey(codon, species, detailed) ==
    codon \o <<"_">> \o Format(species) \o <<"_">>
    \o (IF detailed THEN <<"T","r","u","e">> ELSE <<"F","a","l","s","e">>)

\* df[FEATURE_COLUMNS].mean().to_frame().T: the mean of every feature column
FeatureMean(features, vs) ==
    [c \in Range(features) |->
        Frac(SumSeq([i \in 1..Len(vs) |-> vs[i][c]]), Len(vs))]

\* generate_interpretation: the context the text names
generate_interpretation(codon, species) ==
    IF Truthy(species) THEN <<"f","o","r"," ">> \o Format(species)
    ELSE <<"g","l","o","b","a","l","l","y">>

\* The sample shap_explain_codon explains: the mean of the rows matching
\* species, or of the background when there is no species or no match.
ShapSample(df, features, background, species) ==
    LET species_rows == HostRows(df, species.s)
    IN  IF Truthy(species) /\ species_rows # <<>>
        THEN FeatureMean(features, [i \in 1..Len(species_rows) |-> species_rows[i].v])
        ELSE FeatureMean(features, background)

\* The explanation computed on a cache miss; the SHAP values themselves are
\* the explainer's, a function of the sample.
Explanation(df, features, background, codon, species, detailed) ==
    [codon |-> codon,
     sample |-> ShapSample(df, features, background, species),
     interpretation |-> IF detailed THEN Some(generate_interpretation(codon, species))
                        ELSE None]

\* The cache after a miss stored its result.
CacheStore(cache, key, explanation) ==
    [k \in DOMAIN cache \cup {key} |-> IF k = key THEN explanation ELSE cache[k]]

\* shap_explain_codon(codon, species, detailed): the value returned and the
\* cache afterwards.  codon is a string; ok says the explainer call does not raise.
shap_explain_codon(df, features, background, cache, codon, species, detailed, ok) ==
    LET feature == StrReplace(codon, "U", "T")
        cache_key == CacheKey(codon, species, detailed)
        explanation == Explanation(df, features, background, codon, species, detailed)
    IN  IF codon = <<>> THEN [value |-> None, cache |-> cache]
        ELSE IF feature \notin Range(features) THEN [value |-> None, cache |-> cache]
        ELSE IF cache_key \in DOMAIN cache
        THEN [value |-> Some(cache[cache_key]), cache |-> cache]
        ELSE IF Truthy(species) /\ species.t # "str"
        THEN [value |-> None, cache |-> cache]     \* str.contains raises, caught
        ELSE IF ~ok THEN [value |-> None, cache |-> cache]   \* explainer raises, caught
        ELSE [value |-> Some(explanation),
              cache |-> CacheStore(cache, cache_key, explanation)]

\* ---------------------------------------------------------------- SHAP numbers

\* Numbers are held in units of 1e-7; one unit of the sixth decimal is Micro.
Micro == 10

\* round(x, 6)
Round6(x) == Micro * RoundHalfEven(x, Micro)

\* sorted_features[:10]
TopCount == 10

\* explainer.shap_values(X_sample)[0] and the expected value, for the
\* global-average sample.
TreeExplainer(values) == [expected_value |-> 3, shap_values |-> values]

\* sorted(contributions.items(), key=lambda x: abs(x[1]), reverse=True): a
\* stable sort, features of equal |value| stay in column order.
SortedFeatures(features, ex) ==
    SortedDesc([i \in 1..Len(features) |->
                   [key |-> Frac(Abs(ex.shap_values[i]), 1),
                    feature |-> features[i], v |-> ex.shap_values[i]]])

\* sorted_features[:10]
TopSlice(sorted) ==
    SubSeq(sorted, 1, IF Len(sorted) < TopCount THEN Len(sorted) ELSE TopCount)

\* explanation["top_features"]
TopFeatures(features, ex) ==
    LET top == TopSlice(SortedFeatures(features, ex))
    IN  [i \in 1..Len(top) |->
            [feature |-> StrReplace(top[i].feature, "T", "U"),
             shap_value |-> Round6(top[i].v),
             abs_shap_value |-> Round6(Abs(top[i].v)),
             effect |-> IF top[i].v > 0 THEN "positive" ELSE "negative"]]

\* The numbers of the explanation: base_value, prediction, total_effect and
\* top_features.
ExplanationNumbers(features, ex) ==
    [base_value |-> ex.expected_value,
     prediction |-> ex.expected_value + SumSeq(ex.shap_values),
     total_effect |-> SumSeq(ex.shap_values),
     top_features |-> TopFeatures(features, ex)]

\* shap_waterfall_data, from the explanation's numbers: cumulative runs
\* unrounded and each step reports it rounded.
shap_waterfall_data(e) ==
    [base_value |-> e.base_value,
     final_prediction |-> e.prediction,
     steps |-> [i \in 1..Len(e.top_features) |->
                  [feature |-> e.top_features[i].feature,
                   shap_value |-> e.top_features[i].shap_value,
                   cumulative_value |->
                       Round6(e.base_value
                              + SumSeq([j \in 1..i |-> e.top_features[j].shap_value])),
                   effect |-> e.top_features[i].effect]]]

\* ---------------------------------------------------------------- routes

Resp(status, body) == [status |-> status, body |-> body]

\* An exception that escapes a view function: Flask answers 500.
ServerError == Resp(500, [error |-> "Internal Server Error"])

\* The model_metrics block: each field echoes one key of EVAL_METRICS.
ModelMetrics ==
    [top1_accuracy |-> "accuracy_top1", top2_accuracy |-> "accuracy_top2",
     top3_accuracy |-> "accuracy_top3", precision |-> "precision",
     recall |-> "recall", f1_score |-> "f1_score", loss |-> "loss",
     accuracy_clean |-> "accuracy_clean", accuracy_noisy |-> "accuracy_noisy",
     accuracy_missing |-> "accuracy_missing",
     accuracy_codon_only |-> "accuracy_codon_only",
     accuracy_codon_bwt |-> "accuracy_codon_bwt"]

Outcome(resp, cache, df) == [response |-> resp, cache |-> cache, df |-> df]

\* analyze_api for a request whose body is a JSON object: the response, the
\* cache and the table afterwards.
analyze_api(df, features, background, fi, cache, req) ==
    LET aa == Get(req.amino_acid, JStr(<<>>))
        codon == Get(req.codon, JStr(<<>>))
        host == Get(req.host_species, JStr(<<>>))
        a == analyze(df, fi, aa, codon)
        df2 == TableAfterScore(df)
        ssa == species_specific_analysis(df2, aa.s, codon)
        hao == host_aware_optimization(df2, aa.s, host)
        rcr == rare_codon_risk(df2, aa.s, host)
        hcs == host_compatibility_score(df2, aa.s, host)
        shap == IF Truthy(codon)
                THEN shap_explain_codon(df2, features, background, cache,
                                        codon.s, host, TRUE, req.explainer_ok)
                ELSE [value |-> None, cache |-> cache]
    IN  IF a.raised THEN Outcome(ServerError, cache, df)
        ELSE IF a.error # None
        THEN Outcome(Resp(400, [error |-> a.error[1]]), cache, df)
        ELSE IF hao.raised \/ rcr.raised \/ hcs.raised
        THEN Outcome(ServerError, cache, df2)
        ELSE Outcome(
               Resp(200,
                 [codon_ranking |-> a.result[1].codon_ranking,
                  selected_rank |-> a.result[1].selected_rank,
                  top_species |-> a.result[1].top_species,
                  species_specific_analysis |-> ssa,
                  host_aware_optimization |-> hao.value,
                  rare_codon_risk |-> rcr.value,
                  host_compatibility_score |-> hcs.value,
                  shap_explanation |-> shap.value,
                  model_metrics |-> ModelMetrics]),
               shap.cache, df2)

\* request.json of a POST that carries no JSON object: a body that is valid
\* JSON but not an object fails at data.get (500); malformed JSON is Flask's
\* 400; with no JSON content type Flask answers 415, or hands the view None,
\* which fails at data.get (500), depending on its version.
NoObjectStatuses(body) ==
    CASE body = "nonobject" -> {500}
      [] body = "malformed" -> {400}
      [] OTHER -> {415, 500}

\* ---------------------------------------------------------------- SHAP routes

\* The numbers of an explanation (base value, prediction, total effect, top
\* features) are the explainer's output for the sample; the sample stands for them.
Prediction(e) == e.sample

RECURSIVE CompareLoop(_, _, _, _, _, _, _, _)
\* The loop of shap_compare_codons / shap_summary_by_amino_acid: explain each
\* codon with detailed=False, threading the cache; entries for the non-null results.
CompareLoop(df, features, background, cache, codons, species, ok, acc) ==
    IF codons = <<>> THEN [value |-> acc, cache |-> cache]
    ELSE LET r == shap_explain_codon(df, features, background, cache,
                                     Head(codons), species, FALSE, ok)
         IN  CompareLoop(df, features, background, r.cache, Tail(codons), species, ok,
                 IF r.value = None THEN acc
                 ELSE Append(acc, [codon |-> Head(codons),
                                   prediction |-> Prediction(r.value[1])]))

\* POST /shap/compare
shap_compare_api(df, features, background, cache, req) ==
    LET species == Get(req.species, JNull)
        loop == CompareLoop(df, features, background, cache, req.codons, species,
                            req.explainer_ok, <<>>)
    IN  IF req.codons = <<>>
        THEN Outcome(Resp(400, [error |-> "No codons provided"]), cache, df)
        ELSE Outcome(
               Resp(200,
                 [comparisons |-> loop.value,
                  species |-> IF Truthy(species) THEN Format(species)
                              ELSE <<"g","l","o","b","a","l">>,
                  \* max() by |total_effect| keeps the first of equal entries
                  most_influential_codon |->
                      IF loop.value = <<>> THEN None ELSE Some(loop.value[1].codon)]),
               loop.cache, df)

\* GET /shap/waterfall/<codon> and GET /shap/force-plot/<codon>: the plot data
\* of the explanation with detailed=False, or 400 when there is none.
shap_plot_api(df, features, background, cache, req) ==
    LET species == Get(req.species, JNull)
        r == shap_explain_codon(df, features, background, cache,
                                req.codon.s, species, FALSE, req.explainer_ok)
    IN  IF r.value = None
        THEN Outcome(Resp(400, [error |-> "Invalid codon"]), r.cache, df)
        ELSE Outcome(Resp(200, [plot |-> req.route, codon |-> r.value[1].codon,
                                prediction |-> Prediction(r.value[1])]),
                     r.cache, df)

\* GET /shap/waterfall/<codon> with the explainer's numbers spelled out: the
\* waterfall of the explanation with detailed=False, or 400 when there is none.
shap_waterfall_api(df, features, background, cache, ex, req) ==
    LET species == Get(req.species, JNull)
        r == shap_explain_codon(df, features, background, cache,
                                req.codon.s, species, FALSE, req.explainer_ok)
    IN  IF r.value = None
        THEN Outcome(Resp(400, [error |-> "Invalid codon"]), r.cache, df)
        ELSE Outcome(Resp(200, shap_waterfall_data(ExplanationNumbers(features, ex))),
                     r.cache, df)

\* GET /shap/amino-acid-summary/<aa>
shap_amino_acid_summary_api(df, features, background, cache, req) ==
    LET aa == StrUpper(req.amino_acid.s)
        codons == CodonsInTable(df, aa)
        loop == CompareLoop(df, features, background, cache, codons, JNull,
                            req.explainer_ok, <<>>)
    IN  IF ~(Len(aa) = 1 /\ aa[1] \in VALID_AA)
        THEN Outcome(Resp(400, [error |-> "Invalid amino acid"]), cache, df)
        ELSE Outcome(
               Resp(200, [amino_acid |-> aa, codon_count |-> Len(codons),
                          codon_explanations |-> loop.value]),
               loop.cache, df)

\* GET /shap/global-importance: the first top_n features by mean |SHAP| over
\* the background; feature i stands for its importance.
shap_global_importance_api(features, bsv, top_n) ==
    IF bsv = None
    THEN Resp(200, [global_importance |-> <<>>, total_features |-> Len(features),
                    explanation |-> "SHAP values not available"])
    ELSE Resp(200,
           [global_importance |->
               [i \in 1..(IF top_n < Len(features) THEN top_n ELSE Len(features)) |->
                   [feature |-> StrReplace(features[Len(features) + 1 - i], "T", "U"),
                    rank |-> i]],
            total_features |-> Len(features),
            explanation |-> "Features ranked by mean absolute SHAP value across all species"])

\* ---------------------------------------------------------------- requests explored

EmptyCache == [k \in {} |-> None]

Req(route, body, aa, codon, host, species, codons, top_n) ==
    [route |-> route, body |-> body, amino_acid |-> aa, codon |-> codon,
     host_species |-> host, species |-> species, codons |-> codons,
     top_n |-> top_n, explainer_ok |-> TRUE]

NoRequest == Req("none", "absent", Missing, Missing, Missing, Missing, <<>>, 0)

NoResponse == [status |-> 0, body |-> [none |-> TRUE]]

coli == <<"c","o","l","i">>
NoneStr == <<"N","o","n","e">>

InvalidAAValues ==
    {Missing, JNull, JNum(5), JStr(<<>>), JStr(<<"A","C">>), JStr(<<"B">>)}
CodonValues ==
    {Missing, JStr(GCA), JStr(<<"g","c","a">>), JStr(GCU), JStr(<<"U","G","G">>), JNum(5)}
HostValues == {Missing, JNull, JStr(coli), JStr(<<"x">>), JStr(NoneStr), JNum(5)}

AnalyzeRequests ==
    {Req("analyze", "object", aa, codon, Missing, Missing, <<>>, 0) :
        aa \in InvalidAAValues, codon \in {Missing, JNum(5)}}
    \cup {Req("analyze", "object", aa, codon, host, Missing, <<>>, 0) :
        aa \in {JStr(<<"A">>), JStr(<<"a">>)}, codon \in CodonValues, host \in HostValues}
    \cup {Req("analyze", "object", JStr(<<"W">>), codon, host, Missing, <<>>, 0) :
        codon \in {Missing, JStr(GCA)}, host \in {Missing, JStr(coli)}}

\* Requests that name alanine, in either case, with every codon value.
AcceptedRequests ==
    {Req("analyze", "object", aa, codon, host, Missing, <<>>, 0) :
        aa \in {JStr(<<"A">>), JStr(<<"a">>)}, codon \in CodonValues,
        host \in {Missing, JStr(coli)}}

NoObjectRequests ==
    {Req("analyze", body, Missing, Missing, Missing, Missing, <<>>, 0) :
        body \in {"nonobject", "malformed", "absent"}}

SpeciesValues == {Missing, JStr(NoneStr)}

CompareRequests ==
    {Req("compare", "object", Missing, Missing, Missing, species, codons, 0) :
        species \in SpeciesValues, codons \in {<<>>, <<GCA>>, <<GCU, GCA>>}}

PlotRequests ==
    {Req(route, "none", Missing, codon, Missing, species, <<>>, 0) :
        route \in {"waterfall", "force-plot"},
        codon \in {JStr(GCA), JStr(GCU)}, species \in SpeciesValues}

SummaryRequests ==
    {Req("amino-acid-summary", "none", aa, Missing, Missing, Missing, <<>>, 0) :
        aa \in {JStr(<<"a">>), JStr(<<"W">>), JStr(<<"B">>)}}

\* GET /shap/waterfall/<codon> with no species: a codon that is a feature
\* column and one that is not.
WaterfallRequests ==
    {Req("waterfall", "none", Missing, codon, Missing, Missing, <<>>, 0) :
        codon \in {JStr(<<"A","A","A">>), JStr(<<"A","A","X">>)}}

ImportanceRequests ==
    {Req("global-importance", "none", Missing, Missing, Missing, Missing, <<>>, n) :
        n \in {1, 20}}

\* ---------------------------------------------------------------- actions

Frame ==
    UNCHANGED <<FEATURE_COLUMNS, X_background, feature_importance, background_shap_values,
                explainer>>

Answer(req, out) ==
    /\ Cardinality(DOMAIN out.cache) <= MaxCache
    /\ request' = req
    /\ response' = out.response
    /\ shap_cache' = out.cache
    /\ codon_df' = out.df
    /\ pc' = "done"
    /\ Frame

\* Request r with its explainer call raising
Failing(r) == [r EXCEPT !.explainer_ok = FALSE]

\* The explainer call of a request either returns or raises; a request that
\* never reaches the call is explored once.
WithExplainer(r, returned, raised) ==
    \/ Answer(r, returned)
    \* the explainer was called exactly when a result was stored
    \/ returned.cache # shap_cache /\ Answer(Failing(r), raised)

\* analyze_api answers request r, with or without the explainer raising.
Analyze(r) ==
    LET handle(req) == analyze_api(codon_df, FEATURE_COLUMNS, X_background,
                                   feature_importance, shap_cache, req)
    IN  WithExplainer(r, handle(r), handle(Failing(r)))

\* POST /analyze
AnalyzeApi ==
    /\ pc = "idle"
    /\ \E r \in AnalyzeRequests : Analyze(r)

\* POST /analyze with an amino acid the service accepts
AnalyzeApiAccepted ==
    /\ pc = "idle"
    /\ \E r \in AcceptedRequests : Analyze(r)

\* POST /analyze without a JSON object as its body
AnalyzeApiNoObject ==
    /\ pc = "idle"
    /\ \E req \in NoObjectRequests :
          \E status \in NoObjectStatuses(req.body) :
             Answer(req, Outcome(
                 IF status = 500 THEN ServerError
                 ELSE Resp(status, [error |-> "Flask"]), shap_cache, codon_df))

\* POST /shap/compare
ShapCompareApi ==
    /\ pc = "idle"
    /\ \E r \in CompareRequests :
          LET handle(req) == shap_compare_api(codon_df, FEATURE_COLUMNS, X_background,
                                              shap_cache, req)
          IN  WithExplainer(r, handle(r), handle(Failing(r)))

\* GET /shap/waterfall/<codon>, GET /shap/force-plot/<codon>
ShapPlotApi ==
    /\ pc = "idle"
    /\ \E r \in PlotRequests :
          LET handle(req) == shap_plot_api(codon_df, FEATURE_COLUMNS, X_background,
                                           shap_cache, req)
          IN  WithExplainer(r, handle(r), handle(Failing(r)))

\* GET /shap/amino-acid-summary/<aa>
ShapAminoAcidSummaryApi ==
    /\ pc = "idle"
    /\ \E r \in SummaryRequests :
          LET handle(req) == shap_amino_acid_summary_api(codon_df, FEATURE_COLUMNS,
                                                         X_background, shap_cache, req)
          IN  WithExplainer(r, handle(r), handle(Failing(r)))

\* GET /shap/waterfall/<codon>, numbers spelled out
ShapWaterfallApi ==
    /\ pc = "idle"
    /\ \E r \in WaterfallRequests :
          LET handle(req) == shap_waterfall_api(codon_df, FEATURE_COLUMNS, X_background,
                                                shap_cache, explainer, req)
          IN  WithExplainer(r, handle(r), handle(Failing(r)))

\* GET /shap/global-importance
ShapGlobalImportanceApi ==
    /\ pc = "idle"
    /\ \E req \in ImportanceRequests :
          Answer(req, Outcome(
              shap_global_importance_api(FEATURE_COLUMNS, background_shap_values, req.top_n),
              shap_cache, codon_df))

\* The response has been sent; the server waits for the next request.
Respond ==
    /\ pc = "done"
    /\ pc' = "idle"
    /\ request' = NoRequest
    /\ response' = NoResponse
    /\ UNCHANGED <<codon_df, shap_cache>>
    /\ Frame

\* ---------------------------------------------------------------- startup

\* background_shap_values = explainer.shap_values(X_background), computed at startup
BackgroundShap(background) == Some(background)

Startup(df) ==
    /\ codon_df = df
    /\ FEATURE_COLUMNS = FeatureColumns(df)
    /\ X_background = create_stratified_background(df)
    /\ feature_importance = BoosterScore(FeatureColumns(df))
    /\ background_shap_values = BackgroundShap(create_stratified_background(df))
    /\ shap_cache = EmptyCache
    /\ pc = "idle"
    /\ request = NoRequest
    /\ response = NoResponse

\* An explainer that gives every feature the same SHAP value.
SteadyExplainer(df) == TreeExplainer([i \in 1..Len(FeatureColumns(df)) |-> 256])

Init ==
    \E cols \in ColumnChoices :
        \E df \in TablesOver(cols, FreqValues, 1, MaxRows) :
            Startup(df) /\ explainer = SteadyExplainer(df)

Next ==
    \/ AnalyzeApi
    \/ AnalyzeApiNoObject
    \/ ShapCompareApi
    \/ ShapPlotApi
    \/ ShapAminoAcidSummaryApi
    \/ ShapGlobalImportanceApi
    \/ Respond

Spec == Init /\ [][Next]_vars

\* A table of HeadRows - 1 to MaxTopRows rows over both codon columns; row i
\* carries the name SpeciesNames[i mod 2].
TopTables ==
    {[columns |-> <<GCU, GCA>>,
      rows |-> [i \in 1..Len(vs) |-> Row(SpeciesNames[(i % 2) + 1], vs[i])]] :
        vs \in {s \in UNION {[1..n -> [{GCU, GCA} -> FreqValues]] : n \in (HeadRows - 1)..MaxTopRows} :
                  \A i \in 1..(Len(s) - 1) :
                      FreqCode(<<GCU, GCA>>, s[i]) <= FreqCode(<<GCU, GCA>>, s[i + 1])}}

InitTop == \E df \in TopTables : Startup(df) /\ explainer = SteadyExplainer(df)

NextTop ==
    \/ AnalyzeApiAccepted
    \/ Respond

\* POST /analyze over tables with more rows than head(5) keeps.
SpecTop == InitTop /\ [][NextTop]_vars

\* Codon columns spelled without U, so that the explanation finds them.
WaterfallColumns ==
    << <<"A","A","A">>, <<"A","A","C">>, <<"A","A","G">>, <<"A","C","A">>,
       <<"A","C","C">>, <<"A","C","G">>, <<"A","G","A">>, <<"A","G","C">>,
       <<"A","G","G">>, <<"C","A","A">>, <<"C","A","C">>, <<"C","A","G">>,
       <<"C","C","A">>, <<"C","C","C">> >>

\* SHAP values the explainer may give a feature, in units of 1e-7.
ShapChoices == {-134, 256}

\* One-row tables over the first n of WaterfallColumns, n up to MaxFeatures.
WaterfallTables ==
    {[columns |-> SubSeq(WaterfallColumns, 1, n),
      rows |-> <<Row(Ecoli, [c \in Range(SubSeq(WaterfallColumns, 1, n)) |-> 1])>>] :
        n \in 1..MaxFeatures}

InitWaterfall ==
    \E df \in WaterfallTables :
        \E values \in [1..Len(df.columns) -> ShapChoices] :
            Startup(df) /\ explainer = TreeExplainer(values)

NextWaterfall ==
    \/ ShapWaterfallApi
    \/ Respond

\* GET /shap/waterfall over tables of up to MaxFeatures feature columns.
SpecWaterfall == InitWaterfall /\ [][NextWaterfall]_vars

\* ---------------------------------------------------------------- what a request asks

ReqAA == Get(request.amino_acid, JStr(<<>>))
ReqCodon == Get(request.codon, JStr(<<>>))
ReqHost == Get(request.host_species, JStr(<<>>))

AnalyzeDone == pc = "done" /\ request.route = "analyze"
AnalyzeOk == AnalyzeDone /\ response.status = 200

\* The amino acid the request names, upper-cased.
AAUpper == IF ReqAA.t = "str" THEN StrUpper(ReqAA.s) ELSE <<>>
NamesValidAA ==
    request.body = "object" /\ Len(AAUpper) = 1 /\ AAUpper[1] \in VALID_AA

\* The codons of the standard code that encode a letter, and those of the
\* request's amino acid that are columns of the table.
SynonymousOf ==
    [letter \in VALID_AA |-> {CodonAt(k) : k \in {j \in 1..64 : StandardCode[j] = letter}}]
Synonymous(letter) == SynonymousOf[letter]
SynInTable ==
    IF NamesValidAA THEN Synonymous(AAUpper[1]) \cap Range(codon_df.columns) ELSE {}

\* The selected codon, upper-cased, when the request names one.
SelectedUpper == IF Truthy(ReqCodon) /\ ReqCodon.t = "str" THEN StrUpper(ReqCodon.s) ELSE <<>>

NRows == Len(codon_df.rows)
TotalOf(c) == SumSeq([i \in 1..NRows |-> codon_df.rows[i].v[c]])

RECURSIVE SumOfSet(_, _)
SumOfSet(S, r) ==
    IF S = {} THEN 0
    ELSE LET c == CHOOSE x \in S : TRUE IN r.v[c] + SumOfSet(S \ {c}, r)

\* ---------------------------------------------------------------- claims

\* C1: for a valid amino acid with codon data, the codon_ranking of POST /analyze
\* lists exactly the synonymous codons that are columns of the table, each once,
\* with their mean frequency, in non-increasing order of the mean, ranked 1..n;
\* and such a request is never answered with a validation error.
C1_CodonRanking ==
    /\ AnalyzeOk =>
         LET ranking == response.body.codon_ranking
             n == Len(ranking)
         IN  /\ {ranking[i].codon : i \in 1..n} = SynInTable
             /\ n = Cardinality(SynInTable)
             /\ n > 0
             /\ \A i \in 1..n :
                   /\ ranking[i].rank = i
                   /\ FracEq(ranking[i].frequency, Frac(TotalOf(ranking[i].codon), NRows))
             /\ \A i \in 1..(n - 1) :
                   TotalOf(ranking[i].codon) * NRows >= TotalOf(ranking[i + 1].codon) * NRows
    /\ (AnalyzeDone /\ NamesValidAA /\ SynInTable # {}) => response.status # 400

\* C1 witness: a ranking of two codons whose order is not the order of the
\* columns (the second column has the larger mean).
C1_Witness ==
    /\ AnalyzeOk
    /\ Len(response.body.codon_ranking) = 2
    /\ response.body.codon_ranking[1].codon = GCA
    /\ TotalOf(GCA) > TotalOf(GCU)

\* C2: a request whose amino_acid is not a valid single-letter code (missing,
\* empty, several letters, an unknown letter, null, not a string, or no JSON
\* object at all) is answered 400.
C2_InvalidAminoAcidIs400 ==
    (AnalyzeDone /\ ~NamesValidAA) => response.status = 400

\* C3: the response to a request with a selected codon carries a bias score.
C3_ResponseHasBiasScore ==
    (AnalyzeOk /\ Truthy(ReqCodon)) => "bias_score" \in DOMAIN response.body

\* C4: the response carries a kingdom comparison.
C4_ResponseHasKingdomComparison ==
    AnalyzeOk => "kingdom_comparison" \in DOMAIN response.body

HostMissesEveryRow ==
    /\ ReqHost.t = "str" /\ ReqHost.s # <<>>
    /\ \A i \in 1..NRows : ~StrContainsNoCase(codon_df.rows[i].SPECIESNAME, ReqHost.s)

\* C5: an unknown amino acid, an amino acid without codon data and a host that
\* matches no row are each answered 400 with an error message.
C5_ValidationFailuresAre400 ==
    (/\ AnalyzeDone
     /\ request.body = "object"
     /\ ReqAA.t = "str"
     /\ ReqCodon.t = "str"
     /\ ReqHost.t = "str"
     /\ \/ ~NamesValidAA
        \/ SynInTable = {}
        \/ HostMissesEveryRow)
    => (response.status = 400 /\ "error" \in DOMAIN response.body)

\* C6 (as claimed): no step changes any module-level variable, the cache included.
C6_NoSharedMutableState ==
    [][UNCHANGED <<codon_df, FEATURE_COLUMNS, X_background, feature_importance,
                   background_shap_values, shap_cache>>]_vars

\* C6 (amended): no request handler changes a module-level variable other than
\* shap_cache: the table, the feature columns, the background sample, the
\* feature importances and the background SHAP values stay what startup made them.
C6_OnlyTheCacheIsWritten ==
    [][UNCHANGED <<codon_df, FEATURE_COLUMNS, X_background, feature_importance,
                   background_shap_values>>]_vars

\* C6 witness: POST /analyze has answered with an explanation it stored in the cache.
C6_Witness ==
    /\ AnalyzeOk
    /\ response.body.shap_explanation # None
    /\ shap_cache # EmptyCache

\* C7: for an RNA-spelled codon that is a feature column, when the explainer
\* does not raise, shap_explanation is not null.
C7_RnaCodonIsExplained ==
    (/\ AnalyzeOk
     /\ ReqCodon.t = "str"
     /\ ReqCodon.s \in Range(FEATURE_COLUMNS)
     /\ "T" \notin Range(ReqCodon.s)
     /\ request.explainer_ok)
    => response.body.shap_explanation # None

\* C8: whatever the letter case of amino_acid and codon, and whether or not the
\* host matches, the answer is 200 and the species and host analyses are those
\* of the upper-case request.
C8_CaseInsensitive ==
    (/\ AnalyzeDone
     /\ NamesValidAA
     /\ SynInTable # {}
     /\ ReqCodon.t = "str"
     /\ ReqHost.t \in {"str", "null"})
    => /\ response.status = 200
       /\ response.body.species_specific_analysis
            = species_specific_analysis(codon_df, AAUpper, JStr(StrUpper(ReqCodon.s)))
       /\ response.body.host_aware_optimization
            = host_aware_optimization(codon_df, AAUpper, ReqHost).value
       /\ response.body.rare_codon_risk
            = rare_codon_risk(codon_df, AAUpper, ReqHost).value
       /\ response.body.host_compatibility_score
            = host_compatibility_score(codon_df, AAUpper, ReqHost).value

\* The SCORE of a row: the selected codon's frequency when it is one of the
\* synonymous codons in the table, else the sum over those codons.
ExpectedScore(r) ==
    IF SelectedUpper \in SynInTable THEN r.v[SelectedUpper] ELSE SumOfSet(SynInTable, r)

\* How many items of a sequence of records satisfy a test.
CountRows(P(_)) == Cardinality({i \in 1..NRows : P(codon_df.rows[i])})

\* C9: top_species holds min(5, rows) rows, in non-increasing SCORE order, each
\* a row of the table with its SCORE, and no row left out scores higher than
\* one listed; selected_rank is the position of the selected codon in
\* codon_ranking, or null when it is not a synonymous codon of the table.
C9_TopSpeciesAndRank ==
    AnalyzeOk =>
      LET top == response.body.top_species
          k == Len(top)
          ranking == response.body.codon_ranking
          rank == response.body.selected_rank
      IN  /\ k = (IF NRows < 5 THEN NRows ELSE 5)
          /\ \A i \in 1..(k - 1) : top[i].SCORE >= top[i + 1].SCORE
          /\ \A i \in 1..k :
                LET same(r) == r.SPECIESNAME = top[i].SPECIESNAME
                                /\ ExpectedScore(r) = top[i].SCORE
                    higher(r) == ExpectedScore(r) > top[i].SCORE
                    atLeast(r) == ExpectedScore(r) >= top[i].SCORE
                IN  /\ Cardinality({j \in 1..k : top[j] = top[i]}) <= CountRows(same)
                    /\ CountRows(higher) < i
                    /\ i <= CountRows(atLeast)
          /\ IF SelectedUpper \in SynInTable
             THEN /\ rank # None
                  /\ rank[1] \in 1..Len(ranking)
                  /\ ranking[rank[1]].codon = SelectedUpper
             ELSE rank = None

\* C9 witness: more rows than top_species keeps, a selected synonymous codon
\* that is not ranked first, and scores that differ.
C9_Witness ==
    /\ AnalyzeOk
    /\ NRows > 5
    /\ SelectedUpper \in SynInTable
    /\ response.body.selected_rank = Some(2)
    /\ response.body.top_species[1].SCORE > response.body.top_species[5].SCORE
    /\ \E i \in 1..NRows : SumOfSet(SynInTable, codon_df.rows[i]) > response.body.top_species[1].SCORE

\* The raw preference score species_specific_analysis gives a row, for the
\* amino acid and codon as the request spells them.
RawPreference(r) ==
    LET syn == IF ReqAA.t = "str" /\ Len(ReqAA.s) = 1 /\ ReqAA.s[1] \in VALID_AA
               THEN Synonymous(ReqAA.s[1]) \cap Range(codon_df.columns) ELSE {}
    IN  IF ReqCodon.t = "str" /\ ReqCodon.s \in syn THEN r.v[ReqCodon.s]
        ELSE SumOfSet(syn, r)

MaxRawPreference ==
    SetMax({RawPreference(codon_df.rows[i]) : i \in 1..NRows})

\* C10: when the largest raw preference score is positive every reported
\* PREFERENCE_SCORE is the raw score over that maximum, lies in [0, 1], and the
\* first of top_species is exactly 1; otherwise the raw scores are reported;
\* top_species is non-increasing, bottom_species non-decreasing, each of
\* min(5, rows) rows.
C10_PreferenceScores ==
    (AnalyzeOk /\ response.body.species_specific_analysis # None) =>
      LET ssa == response.body.species_specific_analysis[1]
          top == ssa.top_species
          bottom == ssa.bottom_species
          listed == [i \in 1..(Len(top) + Len(bottom)) |->
                        IF i <= Len(top) THEN top[i] ELSE bottom[i - Len(top)]]
          scale == IF MaxRawPreference > 0 THEN MaxRawPreference ELSE 1
          isRowOf(e) == \E j \in 1..NRows :
                          /\ codon_df.rows[j].SPECIESNAME = e.SPECIESNAME
                          /\ e.PREFERENCE_SCORE = Frac(RawPreference(codon_df.rows[j]), scale)
      IN  /\ Len(top) = (IF NRows < 5 THEN NRows ELSE 5)
          /\ Len(bottom) = Len(top)
          /\ \A i \in 1..Len(listed) : isRowOf(listed[i])
          /\ MaxRawPreference > 0 =>
                /\ \A i \in 1..Len(listed) :
                      /\ 0 <= listed[i].PREFERENCE_SCORE.num
                      /\ listed[i].PREFERENCE_SCORE.num <= listed[i].PREFERENCE_SCORE.den
                /\ FracEq(top[1].PREFERENCE_SCORE, Frac(1, 1))
          /\ \A i \in 1..(Len(top) - 1) :
                ~FracLess(top[i].PREFERENCE_SCORE, top[i + 1].PREFERENCE_SCORE)
          /\ \A i \in 1..(Len(bottom) - 1) :
                ~FracLess(bottom[i + 1].PREFERENCE_SCORE, bottom[i].PREFERENCE_SCORE)

\* C10 witness: more than five rows, a largest raw score above 1 (so that the
\* division changes the scores), and a listed score strictly between 0 and 1.
C10_Witness ==
    /\ AnalyzeOk
    /\ response.body.species_specific_analysis # None
    /\ NRows > 5
    /\ MaxRawPreference > 1
    /\ \E i \in 1..5 :
          LET sc == response.body.species_specific_analysis[1].top_species[i].PREFERENCE_SCORE
          IN  0 < sc.num /\ sc.num < sc.den

\* The response the answered request gets from a server whose cache is empty.
OnEmptyCache ==
    CASE request.route = "analyze" /\ request.body = "object" ->
             analyze_api(codon_df, FEATURE_COLUMNS, X_background, feature_importance,
                         EmptyCache, request).response
      [] request.route = "compare" ->
             shap_compare_api(codon_df, FEATURE_COLUMNS, X_background,
                              EmptyCache, request).response
      [] request.route \in {"waterfall", "force-plot"} ->
             shap_plot_api(codon_df, FEATURE_COLUMNS, X_background,
                           EmptyCache, request).response
      [] request.route = "amino-acid-summary" ->
             shap_amino_acid_summary_api(codon_df, FEATURE_COLUMNS, X_background,
                                         EmptyCache, request).response
      [] OTHER -> response

\* C11: the SHAP cache is transparent: whatever requests came before, the
\* response to a request is the one it gets on an empty cache; in particular
\* a call with no species and a call with the species string "None" never
\* receive each other's cached explanation.
C11_CacheIsTransparent ==
    pc = "done" => response = OnEmptyCache

WaterfallDone ==
    pc = "done" /\ request.route = "waterfall" /\ response.status = 200
    /\ "steps" \in DOMAIN response.body

\* C12: the steps of the waterfall walk from the base value to the
\* prediction: each step's cumulative_value is base_value plus the shap_value
\* of that step and of those before it, rounded to 6 places, and the last
\* step's cumulative_value is final_prediction up to the roundings applied
\* (half a unit of the sixth decimal for each step and one for the total),
\* for any number of feature columns.
C12_WaterfallReachesPrediction ==
    WaterfallDone =>
        LET w == response.body
            n == Len(w.steps)
        IN  /\ \A i \in 1..n :
                  w.steps[i].cumulative_value =
                      Round6(w.base_value + SumSeq([j \in 1..i |-> w.steps[j].shap_value]))
            /\ n > 0 =>
                  2 * Abs(w.steps[n].cumulative_value - w.final_prediction)
                      <= (n + 1) * Micro

====
